---- MODULE Spec2Model ----
(***************************************************************************)
(* The k-anonymity engine of Lab2/src/anonymize.py.                        *)
(*                                                                         *)
(* A DataFrame is a record [columns, index, data]: the column names in     *)
(* order, the row labels in order, and one record (column -> value) per    *)
(* row.  Cell values are integers: a data cell holds the code of its       *)
(* category, a 'uniqueness' cell holds a group size, and NaN is the        *)
(* missing value of either.                                                *)
(*                                                                         *)
(* Spec       the functions of the suppression stage, called on small      *)
(*            frames: calculate_row_uniqueness, remove_rows_by_uniqueness, *)
(*            identify_bad_k_values.                                       *)
(* SpecCount  the same functions on frames of up to MaxTotalRows rows and  *)
(*            every percentage 0..100.                                     *)
(* SpecGen    generalize_column on one numeric column.                     *)
(* SpecCol    the other column transforms, each on one column.             *)
(* SpecMain   main: the whole pipeline on small datasets.                  *)
(* SpecPerform perform_anonymization, remove_rows given or defaulted.      *)
(* SpecInput  get_quasi_identifiers on the lines the user enters.          *)
(***************************************************************************)
EXTENDS Integers, Sequences, FiniteSets, TLC

VARIABLES
    df,          \* the caller's frame (anonymized_df of main)
    raised,      \* "none", or the exception that ended the run
    metrics,     \* what the last calculate_row_uniqueness returned
    grouped,     \* the group sizes of the last groupby: a set of [key, counts]
    removed,     \* the number the last remove_rows_by_uniqueness printed (NaN: none)
    before,      \* the frame, metrics and percentage at the last removal
    report,      \* the groups printed by the last identify_bad_k_values
    lastOp,      \* the function called last
    gen,         \* the state of generalize_column (SpecGen)
    col,         \* the state of a column transform (SpecCol)
    run          \* the state of main, perform_anonymization or get_quasi_identifiers

vars == <<df, raised, metrics, grouped, removed, before, report, lastOp, gen, col, run>>

frameVars == <<df, raised, metrics, grouped, removed, before, report, lastOp>>

(***************************************************************************)
(* Bounds.                                                                 *)
(***************************************************************************)
MaxRows == 3          \* rows of the exhaustively enumerated frames
MaxGroup == 6         \* rows per group of the two-group frames
MaxTotalRows == 50    \* rows of the frames of SpecCount
MaxLen == 3           \* cells of the columns of SpecGen
MaxCategories == 3    \* num_categories of SpecGen
MaxTokens == 2        \* column numbers on one input line of SpecInput
MaxRejected == 3      \* rejected input lines of SpecInput

NaN == -1

IsNull(v) == v = NaN

(***************************************************************************)
(* Small helpers on sets and sequences of integers.                        *)
(***************************************************************************)
RECURSIVE SumSeq(_)
SumSeq(s) == IF s = <<>> THEN 0 ELSE Head(s) + SumSeq(Tail(s))

RECURSIVE SumCounts(_)
SumCounts(G) ==
    IF G = {} THEN 0
    ELSE LET g == CHOOSE x \in G : TRUE IN g.counts + SumCounts(G \ {g})

RECURSIVE SelectPositions(_, _, _)
\* the positions i >= from of sequence s, in order, with keep[i]
SelectPositions(keep, from, n) ==
    IF from > n THEN <<>>
    ELSE (IF keep[from] THEN <<from>> ELSE <<>>) \o SelectPositions(keep, from + 1, n)

RECURSIVE KSubsets(_, _)
\* the subsets of S with exactly k elements
KSubsets(S, k) ==
    IF k = 0 THEN {{}}
    ELSE IF Cardinality(S) < k THEN {}
    ELSE IF Cardinality(S) = k THEN {S}
    ELSE LET x == CHOOSE y \in S : TRUE
         IN  {T \cup {x} : T \in KSubsets(S \ {x}, k - 1)} \cup KSubsets(S \ {x}, k)

RECURSIVE SortedSeq(_)
\* the ascending sequence of the values of a sequence
SortedSeq(s) ==
    IF s = <<>> THEN <<>>
    ELSE LET i == CHOOSE j \in 1..Len(s) : \A l \in 1..Len(s) : s[j] <= s[l]
         IN  <<s[i]>> \o SortedSeq(SubSeq(s, 1, i - 1) \o SubSeq(s, i + 1, Len(s)))

(***************************************************************************)
(* IEEE-754 binary64 arithmetic, as far as line 334 uses it:               *)
(*     rows_to_remove = int(total_rows * (percentage / 100))               *)
(* A double is [zero, e, m]: m is the 53-bit significand, most significant *)
(* bit first (m[1] = 1), and e the exponent of m[1]; the value is the sum  *)
(* of m[i] * 2^(e + 1 - i).  Results are rounded to nearest, ties to even. *)
(***************************************************************************)
Precision == 53

LimbBits == 13     \* the products below are computed 13 bits at a time

FZero == [zero |-> TRUE, e |-> 0, m |-> <<>>]

RECURSIVE Pow2(_)
Pow2(k) == IF k = 0 THEN 1 ELSE 2 * Pow2(k - 1)

RECURSIVE BitsToNat(_)
\* the number with the binary digits b, most significant first
BitsToNat(b) ==
    IF b = <<>> THEN 0 ELSE 2 * BitsToNat(SubSeq(b, 1, Len(b) - 1)) + b[Len(b)]

Zeros(k) == [i \in 1..k |-> 0]

\* b + 1 on digits of fixed width; an overflow wraps to all zeros
Increment(b) ==
    LET zeros == {i \in 1..Len(b) : b[i] = 0}
        last  == IF zeros = {} THEN 0 ELSE CHOOSE i \in zeros : \A j \in zeros : j <= i
    IN  [i \in 1..Len(b) |-> IF i < last THEN b[i] ELSE IF i = last THEN 1 ELSE 0]

\* The double nearest to the number whose binary digits are `bits` (first
\* digit 1, of exponent e) followed by a nonzero tail iff `sticky`.
RoundToDouble(bits, e, sticky) ==
    IF Len(bits) <= Precision
    THEN [zero |-> FALSE, e |-> e, m |-> bits \o Zeros(Precision - Len(bits))]
    ELSE LET keep  == SubSeq(bits, 1, Precision)
             guard == bits[Precision + 1]
             rest  == sticky \/ \E i \in (Precision + 2)..Len(bits) : bits[i] = 1
             up    == guard = 1 /\ (rest \/ keep[Precision] = 1)
             inc   == Increment(keep)
         IN  IF ~up THEN [zero |-> FALSE, e |-> e, m |-> keep]
             ELSE IF inc[1] = 0
                  THEN [zero |-> FALSE, e |-> e + 1, m |-> <<1>> \o Zeros(Precision - 1)]
                  ELSE [zero |-> FALSE, e |-> e, m |-> inc]

RECURSIVE Pow2Mod(_, _)
\* 2^k modulo den
Pow2Mod(k, den) ==
    IF k = 0 THEN 1 % den
    ELSE LET h == Pow2Mod(k \div 2, den)
         IN  (((h * h) % den) * (IF k % 2 = 1 THEN 2 ELSE 1)) % den

\* what is left of rem / den after k binary digits: rem * 2^k modulo den
QuotientRem(rem, den, k) == (rem * Pow2Mod(k, den)) % den

\* the first k binary digits of rem / den after the point, for rem < den
QuotientBits(rem, den, k) ==
    [i \in 1..k |-> IF 2 * QuotientRem(rem, den, i - 1) >= den THEN 1 ELSE 0]

RECURSIVE ShiftUp(_, _)
\* the least t with a * 2^t >= b
ShiftUp(a, b) == IF a >= b THEN 0 ELSE 1 + ShiftUp(2 * a, b)

RECURSIVE ShiftDown(_, _)
\* the greatest t with b * 2^t <= a, for a >= b
ShiftDown(a, b) == IF 2 * b > a THEN 0 ELSE 1 + ShiftDown(a, 2 * b)

\* a / b of two integers a >= 0, b > 0 (Python's true division)
FDiv(a, b) ==
    IF a = 0 THEN FZero
    ELSE LET up   == ShiftUp(a, b)
             down == IF a >= b THEN ShiftDown(a, b) ELSE 0
             num  == a * Pow2(up)
             den  == b * Pow2(down)
             tail == QuotientBits(num - den, den, Precision)
             rem  == QuotientRem(num - den, den, Precision)
         IN  RoundToDouble(<<1>> \o tail, down - up, rem # 0)

\* limb j (0 the least significant) of the digits b
Limb(b, j) ==
    LET lo == Len(b) - LimbBits * (j + 1) + 1
        hi == Len(b) - LimbBits * j
    IN  IF hi < 1 THEN 0 ELSE BitsToNat(SubSeq(b, IF lo < 1 THEN 1 ELSE lo, hi))

RECURSIVE TimesWords(_, _, _, _)
\* the limbs of (digits b) * n from limb j on, least significant first; the
\* last one is the carry out of the last limb of b
TimesWords(b, n, j, carry) ==
    IF j * LimbBits >= Len(b) THEN <<carry>>
    ELSE LET d == Limb(b, j) * n + carry
         IN  <<d % Pow2(LimbBits)>> \o TimesWords(b, n, j + 1, d \div Pow2(LimbBits))

\* the binary digits of (digits b) * n, for b[1] = 1 and 0 < n < 2^17
TimesBits(b, n) ==
    LET words == TimesWords(b, n, 0, 0)
        bit(t) == (words[t \div LimbBits + 1] \div Pow2(t % LimbBits)) % 2
        ones == {t \in 0..(LimbBits * Len(words) - 1) : bit(t) = 1}
        top == CHOOSE t \in ones : \A u \in ones : u <= t
    IN  [i \in 1..(top + 1) |-> bit(top + 1 - i)]

\* n * x of an integer n >= 0 (converted exactly) and a double x
FMulInt(n, x) ==
    IF n = 0 \/ x.zero THEN FZero
    ELSE LET prod == TimesBits(x.m, n)
         IN  RoundToDouble(prod, x.e + (Len(prod) - Precision), FALSE)

\* int(x) of a double x >= 0: the integer part
Trunc(x) ==
    IF x.zero \/ x.e < 0 THEN 0 ELSE BitsToNat(SubSeq(x.m, 1, x.e + 1))

\* line 334
RowsToRemove(total_rows, percentage) ==
    Trunc(FMulInt(total_rows, FDiv(percentage, 100)))

(***************************************************************************)
(* DataFrames.                                                             *)
(***************************************************************************)
\* Two columns of the anonymized table: the shop category (strings, never
\* missing after line 115) and the quantity bucket (the categorical column
\* that pd.cut returns at line 276, missing where the value was not numeric).
DataColumns == <<"shop_name", "quantity">>

ShopValues == {1, 2}

\* the bucket labels of the quantity column: the categories of the column
QuantityCategories == {1, 2}

Categorical == {"quantity"}

Categories(c) == QuantityCategories

Range(s) == {s[i] : i \in 1..Len(s)}

NumRows(frame) == Len(frame.data)

HasColumn(frame, c) == c \in Range(frame.columns)

\* the values of column c, in row order
Column(frame, c) == [i \in 1..NumRows(frame) |-> frame.data[i][c]]

\* the key of row i under the grouping columns `by`
KeyOf(frame, by, i) == [j \in 1..Len(by) |-> frame.data[i][by[j]]]

\* groupby drops the rows that hold a missing value in a grouping column
\* (dropna=True, the default of DataFrame.groupby)
InSomeGroup(frame, by, i) == \A j \in 1..Len(by) : ~IsNull(frame.data[i][by[j]])

GroupedRows(frame, by) == {i \in 1..NumRows(frame) : InSomeGroup(frame, by, i)}

GroupMembers(frame, by, key) ==
    {i \in GroupedRows(frame, by) : KeyOf(frame, by, i) = key}

\* the levels of one grouping column: its categories when it is categorical,
\* else the values observed in it
Levels(frame, c) ==
    IF c \in Categorical THEN Categories(c)
    ELSE {frame.data[i][c] : i \in {r \in 1..NumRows(frame) : ~IsNull(frame.data[r][c])}}

RECURSIVE KeyProduct(_, _, _)
\* the keys of the product of the levels of by[j..]
KeyProduct(frame, by, j) ==
    IF j > Len(by) THEN {<<>>}
    ELSE {<<v>> \o k : v \in Levels(frame, by[j]), k \in KeyProduct(frame, by, j + 1)}

ObservedKeys(frame, by) == {KeyOf(frame, by, i) : i \in GroupedRows(frame, by)}

\* groupby(by, observed).size(): one [key, counts] per group.  With
\* observed=False and a categorical grouping column the result covers the
\* product of the levels, the combinations no row holds with counts 0.
GroupSizes(frame, by, observed) ==
    LET keys == IF ~observed /\ \E j \in 1..Len(by) : by[j] \in Categorical
                THEN KeyProduct(frame, by, 1)
                ELSE ObservedKeys(frame, by)
    IN  {[key |-> k, counts |-> Cardinality(GroupMembers(frame, by, k))] : k \in keys}

\* groupby(by).transform('size'): each row's group size, NaN for a row that
\* is in no group
TransformSize(frame, by) ==
    [i \in 1..NumRows(frame) |->
        IF InSomeGroup(frame, by, i)
        THEN Cardinality(GroupMembers(frame, by, KeyOf(frame, by, i)))
        ELSE NaN]

\* df[c] = values: the column is replaced, or added as the last column
SetColumn(frame, c, values) ==
    [columns |-> IF HasColumn(frame, c) THEN frame.columns ELSE Append(frame.columns, c),
     index   |-> frame.index,
     data    |-> [i \in 1..NumRows(frame) |->
                    [d \in (DOMAIN frame.data[i]) \cup {c} |->
                        IF d = c THEN values[i] ELSE frame.data[i][d]]]]

\* Series.min/max/mean/median skip the missing values; the result is NaN when
\* nothing is left.  mean and median are the rationals num/den (0/0 for NaN).
ValidValues(values) ==
    LET keep == [i \in 1..Len(values) |-> ~IsNull(values[i])]
        pos  == SelectPositions(keep, 1, Len(values))
    IN  [i \in 1..Len(pos) |-> values[pos[i]]]

RatNaN == [num |-> 0, den |-> 0]

SeriesMin(values) ==
    LET v == ValidValues(values)
    IN  IF v = <<>> THEN NaN ELSE SortedSeq(v)[1]

SeriesMax(values) ==
    LET v == ValidValues(values)
    IN  IF v = <<>> THEN NaN ELSE SortedSeq(v)[Len(v)]

SeriesMean(values) ==
    LET v == ValidValues(values)
    IN  IF v = <<>> THEN RatNaN ELSE [num |-> SumSeq(v), den |-> Len(v)]

SeriesMedian(values) ==
    LET v == SortedSeq(ValidValues(values))
        n == Len(v)
    IN  IF n = 0 THEN RatNaN
        ELSE IF n % 2 = 1 THEN [num |-> v[(n + 1) \div 2], den |-> 1]
        ELSE [num |-> v[n \div 2] + v[n \div 2 + 1], den |-> 2]

NoMetrics ==
    [k_anonymity |-> NaN, max_uniqueness |-> NaN,
     avg_uniqueness |-> RatNaN, median_uniqueness |-> RatNaN]

\* UniquenessMetrics over the group sizes, one value per group, instead of
\* over the rows
MetricsOverGroups(frame) ==
    LET by    == [i \in 1..(Len(frame.columns) - 1) |-> frame.columns[i]]
        G     == GroupSizes(frame, by, TRUE)
        sizes == SortedSeq([i \in 1..Cardinality(G) |->
                    (CHOOSE f \in [1..Cardinality(G) -> G] :
                        \A a, b \in 1..Cardinality(G) : a # b => f[a] # f[b])[i].counts])
    IN  [k_anonymity |-> SeriesMin(sizes), max_uniqueness |-> SeriesMax(sizes),
         avg_uniqueness |-> SeriesMean(sizes), median_uniqueness |-> SeriesMedian(sizes)]

\* lines 66-77
UniquenessMetrics(frame) ==
    LET u == Column(frame, "uniqueness")
    IN  [k_anonymity |-> SeriesMin(u), max_uniqueness |-> SeriesMax(u),
         avg_uniqueness |-> SeriesMean(u), median_uniqueness |-> SeriesMedian(u)]

\* line 64: the grouping columns are all the columns of the frame, a
\* 'uniqueness' column of an earlier call among them
UniquenessGrouping(frame) == frame.columns

\* line 64
AnnotateFrame(frame) ==
    SetColumn(frame, "uniqueness", TransformSize(frame, UniquenessGrouping(frame)))

(***************************************************************************)
(* remove_rows_by_uniqueness (lines 325-352).                              *)
(***************************************************************************)
\* Line 341, df.sort_values(by='uniqueness'), sorts with kind='quicksort',
\* which is not a stable sort: rows of equal uniqueness come out in any
\* order.  The rows whose uniqueness is missing come last, in row order.
\* Line 344 takes the first k rows of that order; HeadPositions is the set of
\* the sets of positions these k rows can be.
HeadPositions(frame, k) ==
    LET n     == NumRows(frame)
        u     == Column(frame, "uniqueness")
        valid == {i \in 1..n : ~IsNull(u[i])}
        nulls == {i \in 1..n : IsNull(u[i])}
        take  == IF k > n THEN n ELSE k
    IN  IF take <= Cardinality(valid)
        THEN LET below(i) == {j \in valid : u[j] < u[i]}
                 upto(i)  == {j \in valid : u[j] <= u[i]}
                 cut      == {i \in valid : Cardinality(below(i)) < take
                                            /\ take <= Cardinality(upto(i))}
             IN  IF take = 0 THEN {{}}
                 ELSE LET c == CHOOSE i \in cut : TRUE
                      IN  {below(c) \cup T :
                             T \in KSubsets(upto(c) \ below(c), take - Cardinality(below(c)))}
        ELSE {valid \cup {i \in nulls :
                            Cardinality({j \in nulls : j < i}) < take - Cardinality(valid)}}

\* line 347, df.drop(labels): the rows whose label is none of `labels`
DropLabels(frame, labels) ==
    LET keep == [i \in 1..NumRows(frame) |-> frame.index[i] \notin labels]
        pos  == SelectPositions(keep, 1, NumRows(frame))
    IN  [columns |-> frame.columns,
         index   |-> [i \in 1..Len(pos) |-> frame.index[pos[i]]],
         data    |-> [i \in 1..Len(pos) |-> frame.data[pos[i]]]]

\* RemoveRowsOutcomes without the check of lines 336-338: a frame with no
\* 'uniqueness' column comes back as it is
RemoveRowsSilently(frame, percentage) ==
    LET total_rows     == NumRows(frame)
        rows_to_remove == RowsToRemove(total_rows, percentage)
    IN  IF ~HasColumn(frame, "uniqueness")
        THEN {[raised |-> "none", frame |-> frame, printed |-> rows_to_remove, head |-> {}]}
        ELSE {[raised  |-> "none",
               frame   |-> DropLabels(frame, {frame.index[i] : i \in head}),
               printed |-> rows_to_remove,
               head    |-> head] : head \in HeadPositions(frame, rows_to_remove)}

\* What remove_rows_by_uniqueness(frame, percentage) can do: raise, or
\* return `frame` (the remaining rows) after printing `printed`; `head` are
\* the positions of the rows of df_to_remove.
RemoveRowsOutcomes(frame, percentage) ==
    LET total_rows     == NumRows(frame)
        rows_to_remove == RowsToRemove(total_rows, percentage)
    IN  IF ~HasColumn(frame, "uniqueness")
        THEN {[raised |-> "ValueError", frame |-> frame, printed |-> NaN, head |-> {}]}
        ELSE {[raised  |-> "none",
               frame   |-> DropLabels(frame, {frame.index[i] : i \in head}),
               printed |-> rows_to_remove,
               head    |-> head] : head \in HeadPositions(frame, rows_to_remove)}

(***************************************************************************)
(* identify_bad_k_values (lines 355-383).                                  *)
(***************************************************************************)
RECURSIVE SortedPrefixes(_, _)
\* Lines 366-372: the groups sorted by counts (again an unstable sort), the
\* first k of them.  G holds the groups left after line 369.
SortedPrefixes(G, k) ==
    IF k = 0 \/ G = {} THEN {<<>>}
    ELSE UNION {{<<g>> \o t : t \in SortedPrefixes(G \ {g}, k - 1)} :
                  g \in {x \in G : \A y \in G : x.counts <= y.counts}}

\* line 369 without the filter
AllGroups(G) == G

\* line 369
NonEmptyGroups(G) == {g \in G : g.counts > 0}

\* lines 379-383: one printed line
PrintedGroup(g, total_rows) ==
    [key |-> g.key, k_value |-> g.counts,
     percentage |-> [num |-> g.counts * 100, den |-> total_rows]]

(***************************************************************************)
(* The frames and the arguments the functions are called with.             *)
(***************************************************************************)
QuantityValues == {NaN, 1}

RowTypes == {[shop_name |-> s, quantity |-> q] : s \in ShopValues, q \in QuantityValues}

\* read_excel gives the rows the labels 0, 1, 2, ...
Frame(rows) ==
    [columns |-> DataColumns, index |-> [i \in 1..Len(rows) |-> i - 1], data |-> rows]

Repeat(row, n) == [i \in 1..n |-> row]

SmallFrames == {Frame(rows) : rows \in UNION {[1..n -> RowTypes] : n \in 1..MaxRows}}

\* a rows of one shop followed by b < a rows of another
TwoGroupFrames ==
    {Frame(Repeat([shop_name |-> 1, quantity |-> 1], ab[1])
           \o Repeat([shop_name |-> 2, quantity |-> 1], ab[2])) :
        ab \in {x \in (1..MaxGroup) \X (1..MaxGroup) : x[2] < x[1]}}

\* n rows whose quantity is missing
NullFrames == {Frame(Repeat([shop_name |-> 1, quantity |-> NaN], n)) : n \in 1..MaxTotalRows}

\* main passes 5
Percentages == {5, 50, 100}

AllPercentages == 0..100

QuasiIdentifierLists == {<<"shop_name">>, <<"quantity">>, <<"shop_name", "quantity">>}

\* main passes 5, the default
ReportLimits == {1, 2, 5}


(***************************************************************************)
(* The actions: one per function.  An exception ends the run (nothing      *)
(* catches it); main removes rows once and reports the bad groups last.    *)
(***************************************************************************)
Running == raised = "none" /\ lastOp # "identify_bad_k_values"

\* calculate_row_uniqueness(df), lines 57-77
CalculateRowUniqueness ==
    /\ Running
    /\ df' = AnnotateFrame(df)
    /\ metrics' = UniquenessMetrics(df')
    /\ grouped' = GroupSizes(df, UniquenessGrouping(df), TRUE)
    /\ lastOp' = "calculate_row_uniqueness"
    /\ UNCHANGED <<raised, removed, before, report, gen, col, run>>

\* remove_rows_by_uniqueness(df, percentage), lines 325-352, and the
\* assignment of its result to the caller's frame
RemoveRowsByUniqueness(percents) ==
    /\ Running
    /\ before = <<>>
    /\ \E percentage \in percents :
        \E out \in RemoveRowsOutcomes(df, percentage) :
            /\ raised' = out.raised
            /\ df' = IF out.raised = "none" THEN out.frame ELSE df
            /\ removed' = out.printed
            /\ before' = <<[frame |-> df, metrics |-> metrics,
                            percentage |-> percentage, head |-> out.head]>>
    /\ lastOp' = "remove_rows_by_uniqueness"
    /\ UNCHANGED <<metrics, grouped, report, gen, col, run>>

\* identify_bad_k_values(df, quasi_identifiers, max_rows), lines 355-383
IdentifyBadKValues ==
    /\ Running
    /\ \E quasi_identifiers \in QuasiIdentifierLists, max_rows \in ReportLimits :
        LET total_rows == NumRows(df)
            sizes      == GroupSizes(df, quasi_identifiers, FALSE)
        IN  /\ grouped' = sizes
            /\ \E bad_groups \in SortedPrefixes(NonEmptyGroups(sizes), max_rows) :
                 report' = [quasi_identifiers |-> quasi_identifiers,
                            max_rows |-> max_rows,
                            total_rows |-> total_rows,
                            printed |-> [i \in 1..Len(bad_groups) |->
                                           PrintedGroup(bad_groups[i], total_rows)]]
    /\ lastOp' = "identify_bad_k_values"
    /\ UNCHANGED <<df, raised, metrics, removed, before, gen, col, run>>

GenIdle == [pc |-> "idle"]

ColIdle == [pc |-> "idle"]

RunIdle == [pc |-> "idle"]

NoReport == [quasi_identifiers |-> <<>>, max_rows |-> 0, total_rows |-> 0, printed |-> <<>>]

InitFrame(frames) ==
    /\ df \in frames
    /\ raised = "none"
    /\ metrics = NoMetrics
    /\ grouped = {}
    /\ removed = NaN
    /\ before = <<>>
    /\ report = NoReport
    /\ lastOp = "read_dataset"
    /\ gen = GenIdle
    /\ col = ColIdle
    /\ run = RunIdle

Init == InitFrame(SmallFrames \cup TwoGroupFrames)

Next ==
    \/ CalculateRowUniqueness
    \/ RemoveRowsByUniqueness(Percentages)
    \/ IdentifyBadKValues

Spec == Init /\ [][Next]_vars

InitCount == InitFrame(NullFrames)

NextCount ==
    \/ CalculateRowUniqueness
    \/ RemoveRowsByUniqueness(AllPercentages)

SpecCount == InitCount /\ [][NextCount]_vars

(***************************************************************************)
(* generalize_column (lines 231-322).                                      *)
(*                                                                         *)
(* Numbers are exact, in units of 1/Scale: the quantile points of integer  *)
(* values at the levels i/N are multiples of 1/N, and Scale is a multiple  *)
(* of every N used and of 10.  The values are not negative.  A boundary    *)
(* that went through ensure_increasing is [v, nudge]: v units plus nudge   *)
(* times the 1e-6 of line 321, which is smaller than a unit.               *)
(***************************************************************************)
Scale == 60

\* x / d without its fraction
RoundDown(x, d) == x \div d

\* the nearest integer to x / d, a tie going to the even one (Python's and
\* numpy's round)
RoundHalfEven(x, d) ==
    LET q == x \div d
        r == x % d
    IN  IF 2 * r < d THEN q
        ELSE IF 2 * r > d THEN q + 1
        ELSE IF q % 2 = 0 THEN q ELSE q + 1

\* one pass of the loop of lines 289-308
BeautifyRounded(b, step) == RoundHalfEven(b, step) * step

Beautify(b) ==
    IF b = 0 THEN 0
    ELSE IF b < Scale THEN BeautifyRounded(b, Scale \div 10)
    ELSE IF b < 10 * Scale THEN BeautifyRounded(b, Scale)
    ELSE IF b < 100 * Scale THEN BeautifyRounded(b, 5 * Scale)
    ELSE IF b < 1000 * Scale THEN BeautifyRounded(b, 50 * Scale)
    ELSE BeautifyRounded(b, 500 * Scale)

\* lines 281-309
BeautifyBoundaries(boundaries) == [i \in 1..Len(boundaries) |-> Beautify(boundaries[i])]

\* a cell of a column that holds nothing
NaNCell == [kind |-> "NaN"]

\* line 241, pd.to_numeric(errors='coerce'): a number stays, anything else
\* becomes NaN
ToNumeric(cell) == IF cell.kind = "number" THEN cell.value * Scale ELSE NaN

\* the cell that holds the number x
NumericCell(x) == IF IsNull(x) THEN NaNCell ELSE [kind |-> "number", value |-> x \div Scale]

\* line 252, Series.quantile (linear interpolation) at the levels i/N of
\* line 251, over the sorted values
QuantilePoint(sorted, i, num_categories) ==
    LET n    == Len(sorted)
        pos  == i * (n - 1)
        lo   == pos \div num_categories + 1
        frac == pos % num_categories
    IN  IF frac = 0 THEN sorted[lo]
        ELSE sorted[lo] + ((sorted[lo + 1] - sorted[lo]) \div num_categories) * frac

Quantiles(valid_values, num_categories) ==
    LET sorted == SortedSeq(valid_values)
    IN  [i \in 1..(num_categories + 1) |-> QuantilePoint(sorted, i - 1, num_categories)]

RECURSIVE Ascending(_)
\* the numbers of S in ascending order
Ascending(S) ==
    IF S = {} THEN <<>>
    ELSE LET least == CHOOSE x \in S : \A y \in S : x <= y
         IN  <<least>> \o Ascending(S \ {least})

\* line 258: sorted(set(boundaries))
SortedSet(boundaries) == Ascending(Range(boundaries))

Plain(v) == [v |-> v, nudge |-> 0]

Precedes(x, y) == x.v < y.v \/ (x.v = y.v /\ x.nudge < y.nudge)

PrecedesOrEquals(x, y) == x = y \/ Precedes(x, y)

RECURSIVE EnsureIncreasingFrom(_, _)
\* the loop of lines 319-321 from index i on (0-based i - 1)
EnsureIncreasingFrom(boundaries, i) ==
    IF i > Len(boundaries) THEN boundaries
    ELSE IF PrecedesOrEquals(boundaries[i], boundaries[i - 1])
         THEN EnsureIncreasingFrom(
                [boundaries EXCEPT ![i] = [v     |-> boundaries[i - 1].v,
                                           nudge |-> boundaries[i - 1].nudge + 1]],
                i + 1)
         ELSE EnsureIncreasingFrom(boundaries, i + 1)

\* lines 312-322
EnsureIncreasing(boundaries) ==
    EnsureIncreasingFrom([i \in 1..Len(boundaries) |-> Plain(boundaries[i])], 2)

\* lines 263-266 with the two assignments going to the wrong ends
ClampWrongEnds(boundaries, min_value, max_value) ==
    LET n     == Len(boundaries)
        first == IF Precedes(Plain(min_value), boundaries[1])
                 THEN [boundaries EXCEPT ![n] = Plain(min_value)]
                 ELSE boundaries
    IN  IF Precedes(first[n], Plain(max_value))
        THEN [first EXCEPT ![1] = Plain(max_value)]
        ELSE first

\* lines 263-266
ClampBoundaries(boundaries, min_value, max_value) ==
    LET n     == Len(boundaries)
        first == IF Precedes(Plain(min_value), boundaries[1])
                 THEN [boundaries EXCEPT ![1] = Plain(min_value)]
                 ELSE boundaries
    IN  IF Precedes(first[n], Plain(max_value))
        THEN [first EXCEPT ![n] = Plain(max_value)]
        ELSE first

\* lines 269-273: the label of bucket i is the text "<lower>-<upper>", here
\* the pair of the two numbers
Labels(boundaries) ==
    [i \in 1..(Len(boundaries) - 1) |->
        [kind |-> "label", lower |-> boundaries[i], upper |-> boundaries[i + 1]]]

\* line 276, pd.cut(x, bins, labels, include_lowest=True) for one cell: the
\* bins are (b[i], b[i+1]], the first one closed on the left; a value in no
\* bin, and a missing value, is NaN
Cut(x, bins, labels) ==
    IF IsNull(x) THEN NaNCell
    ELSE LET ids == IF Plain(x) = bins[1] THEN 1
                    ELSE Cardinality({i \in 1..Len(bins) : Precedes(bins[i], Plain(x))})
         IN  IF ids = 0 \/ ids = Len(bins) THEN NaNCell ELSE labels[ids]

\* generalize_column(df, column_name, num_categories) on the cells of the
\* column: what the function computes on its way, and the column it returns
GeneralizeColumn(cells, num_categories) ==
    LET numeric      == [i \in 1..Len(cells) |-> ToNumeric(cells[i])]
        valid_values == ValidValues(numeric)
    IN  IF Len(valid_values) = 0
        THEN [pc |-> "returned", cells |-> cells, num_categories |-> num_categories,
              valid_values |-> valid_values, quantiles |-> <<>>, beautified |-> <<>>,
              increasing |-> <<>>, boundaries |-> <<>>, labels |-> <<>>,
              binned |-> FALSE,
              column |-> [i \in 1..Len(cells) |-> NumericCell(numeric[i])]]
        ELSE LET quantiles  == Quantiles(valid_values, num_categories)
                 beautified == BeautifyBoundaries(quantiles)
                 increasing == EnsureIncreasing(SortedSet(beautified))
                 min_value  == SeriesMin(valid_values)
                 max_value  == SeriesMax(valid_values)
                 boundaries == ClampBoundaries(increasing, min_value, max_value)
                 labels     == Labels(boundaries)
             IN  [pc |-> "returned", cells |-> cells, num_categories |-> num_categories,
                  valid_values |-> valid_values, quantiles |-> quantiles,
                  beautified |-> beautified, increasing |-> increasing,
                  boundaries |-> boundaries, labels |-> labels, binned |-> TRUE,
                  column |-> [i \in 1..Len(cells) |-> Cut(numeric[i], boundaries, labels)]]

\* The cells of a column: whole numbers, text that is no number, nothing.
CellValues == {0, 1, 12, 13, 100, 120, 1240}

Cells == {[kind |-> "number", value |-> v] : v \in CellValues}
         \cup {[kind |-> "text"], NaNCell}

ColumnOf(values) == [i \in 1..Len(values) |-> [kind |-> "number", value |-> values[i]]]

\* the column of the scenario of the specification
ScenarioColumn == ColumnOf(<<1, 2, 3, 4, 100>>)

Columns == UNION {[1..n -> Cells] : n \in 1..MaxLen} \cup {ScenarioColumn}

GenCall(cells, num_categories) ==
    [pc |-> "called", cells |-> cells, num_categories |-> num_categories]

\* the call of lines 395-396 returns
GeneralizeColumnReturns ==
    /\ gen.pc = "called"
    /\ gen' = GeneralizeColumn(gen.cells, gen.num_categories)
    /\ UNCHANGED <<frameVars, col, run>>

InitGen ==
    /\ gen \in {GenCall(c, n) : c \in Columns, n \in 1..MaxCategories}
    /\ df = Frame(<<>>)
    /\ raised = "none"
    /\ metrics = NoMetrics
    /\ grouped = {}
    /\ removed = NaN
    /\ before = <<>>
    /\ report = NoReport
    /\ lastOp = "read_dataset"
    /\ col = ColIdle
    /\ run = RunIdle

NextGen == GeneralizeColumnReturns

SpecGen == InitGen /\ [][NextGen]_vars

(***************************************************************************)
(* The column transforms (lines 80-228).                                   *)
(*                                                                         *)
(* A cell is an integer: the code of a name, of a category or of a label,  *)
(* a number, a date (year * 100 + month), NaN for a missing value, Text    *)
(* for a text that is neither a number nor a date.  A card number is a     *)
(* text, the sequence of its characters.                                   *)
(***************************************************************************)
Text == -2

\* 'Неизвестно', the value the transforms write for what they cannot use
Unknown == 0

\* what astype(str) makes of a missing value: the text 'nan'
NanText == 5

\* line 115
UnknownCategory == 10

\* settings.json: shop_categories, category_name -> chains_of_stores, in the
\* order of the file
ShopCategories ==
    << [category_name |-> 11, chains_of_stores |-> {1, 2}],
       [category_name |-> 12, chains_of_stores |-> {3}] >>

\* lines 96-102: every chain gets the category it is listed under (the last
\* one, should it be listed twice)
ShopNameToCategory(shop_categories) ==
    LET listed(name) == {k \in 1..Len(shop_categories) :
                            name \in shop_categories[k].chains_of_stores}
        last(name)   == CHOOSE k \in listed(name) : \A j \in listed(name) : j <= k
    IN  [name \in UNION {shop_categories[k].chains_of_stores : k \in 1..Len(shop_categories)} |->
            shop_categories[last(name)].category_name]

\* a fillna that fills nothing
FillNaNothing(cells, value) == cells

\* fillna(value)
FillNa(cells, value) == [i \in 1..Len(cells) |-> IF IsNull(cells[i]) THEN value ELSE cells[i]]

\* anonymize_shop_names, lines 80-117, on the cells of 'Название магазина';
\* settings_file is how open('../settings.json') and json.load end.  The
\* count is NaN when nothing is printed.
AnonymizeShopNames(cells, settings_file) ==
    IF settings_file = "unreadable"
    THEN [raised |-> "OSError", column |-> cells, unmatched |-> NaN]
    ELSE IF settings_file # "ok"
    THEN [raised |-> "none", column |-> cells, unmatched |-> NaN]
    ELSE LET shop_name_to_category == ShopNameToCategory(ShopCategories)
             \* line 105, astype(str)
             text(cell)    == IF IsNull(cell) THEN NanText ELSE cell
             \* line 108, Series.map(dict): NaN for a key the dict does not have
             mapped        == [i \in 1..Len(cells) |->
                                 IF text(cells[i]) \in DOMAIN shop_name_to_category
                                 THEN shop_name_to_category[text(cells[i])] ELSE NaN]
             \* line 111
             missing_shops == Cardinality({i \in 1..Len(mapped) : IsNull(mapped[i])})
         IN  IF missing_shops > 0
             THEN [raised |-> "none", column |-> FillNa(mapped, UnknownCategory),
                   unmatched |-> missing_shops]
             ELSE [raised |-> "none", column |-> mapped, unmatched |-> NaN]

\* line 174, pd.to_datetime(errors='coerce'): NaT for what is no date
ToDatetime(cell) == IF cell = Text THEN NaN ELSE cell

\* the four season names of lines 177-184
Seasons == [winter |-> 1, spring |-> 2, summer |-> 3, autumn |-> 4]

\* get_season by quarters of the calendar year
get_season_by_quarter(month) ==
    IF month \in {1, 2, 3} THEN Seasons.winter
    ELSE IF month \in {4, 5, 6} THEN Seasons.spring
    ELSE IF month \in {7, 8, 9} THEN Seasons.summer
    ELSE IF month \in {10, 11, 12} THEN Seasons.autumn
    ELSE Unknown

\* lines 176-186
get_season(month) ==
    IF month \in {12, 1, 2} THEN Seasons.winter
    ELSE IF month \in {3, 4, 5} THEN Seasons.spring
    ELSE IF month \in {6, 7, 8} THEN Seasons.summer
    ELSE IF month \in {9, 10, 11} THEN Seasons.autumn
    ELSE Unknown

\* the text f" {x.year}, {season}" of line 189, as the number year * 10 +
\* season
SeasonLabel(year, season) == year * 10 + season

\* anonymize_datetime, lines 170-191, on the cells of 'Дата и время'
AnonymizeDatetime(cells) ==
    [i \in 1..Len(cells) |->
        LET x == ToDatetime(cells[i])
        IN  IF ~IsNull(x) THEN SeasonLabel(x \div 100, get_season(x % 100)) ELSE Unknown]

\* lines 128-129, pd.to_numeric(errors='coerce')
CoerceNumeric(cell) == IF cell = Text THEN NaN ELSE cell

\* lines 124-125, in millionths of a degree
CENTER_LAT == 59938784
CENTER_LON == 30314997

\* calculate_distance, lines 132-145: the haversine distance from the centre
\* in metres, for the coordinates the datasets hold; NaN when a coordinate is
\* missing
calculate_distance(lat, lon) ==
    IF IsNull(lat) \/ IsNull(lon) THEN NaN
    ELSE CASE lat = CENTER_LAT /\ lon = CENTER_LON -> 0
           [] lat = CENTER_LAT /\ lon = 30364997   -> 2785
           [] lat = 59998784   /\ lon = CENTER_LON -> 6672
           [] lat = 59998784   /\ lon = 30364997   -> 7229
           [] lat = 60138784   /\ lon = CENTER_LON -> 22239
           [] lat = 60138784   /\ lon = 30364997   -> 22412

\* the thresholds of lines 155 and 157, in km
FirstThreshold == 6
SecondThreshold == 6

\* the three labels of lines 156, 158, 160
DistanceBands == [innermost |-> 1, middle |-> 2, outermost |-> 3]

\* categorize_distance with the labels of the nearest and the farthest band
\* exchanged
categorize_distance_reversed(distance) ==
    IF IsNull(distance) THEN Unknown
    ELSE IF distance <= FirstThreshold * 1000 THEN DistanceBands.outermost
    ELSE IF distance <= SecondThreshold * 1000 THEN DistanceBands.middle
    ELSE DistanceBands.innermost

\* categorize_distance, lines 152-160; the distance is in metres
categorize_distance(distance) ==
    IF IsNull(distance) THEN Unknown
    ELSE IF distance <= FirstThreshold * 1000 THEN DistanceBands.innermost
    ELSE IF distance <= SecondThreshold * 1000 THEN DistanceBands.middle
    ELSE DistanceBands.outermost

\* anonymize_location, lines 120-167, on the cells of 'Широта' and 'Долгота':
\* the cells of 'Расположение'
AnonymizeLocation(latitudes, longitudes) ==
    [i \in 1..Len(latitudes) |->
        categorize_distance(calculate_distance(CoerceNumeric(latitudes[i]),
                                               CoerceNumeric(longitudes[i])))]

\* '******'
MaskToken == 9

\* a mask that numbers the rows
MaskByRow(cells) == [i \in 1..Len(cells) |-> MaskToken + i]

\* a mask that leaves the missing values
MaskPresent(cells) == [i \in 1..Len(cells) |-> IF IsNull(cells[i]) THEN NaN ELSE MaskToken]

\* mask, lines 194-199
Mask(cells) == [i \in 1..Len(cells) |-> MaskToken]

\* the characters of the card numbers: the decimal digits, a letter, and a
\* character such as the superscript two, which str.isdigit accepts and int
\* rejects
DecimalDigits == <<"0", "1", "2", "3", "4", "5", "6", "7", "8", "9">>

IsDecimal(ch) == \E d \in 1..Len(DecimalDigits) : DecimalDigits[d] = ch

\* str.isdigit: every character is a digit and there is at least one
isdigit(text) == Len(text) > 0 /\ \A i \in 1..Len(text) : IsDecimal(text[i]) \/ text[i] = "sup2"

RECURSIVE IntValue(_)
IntValue(text) ==
    LET digit(ch) == (CHOOSE d \in 1..Len(DecimalDigits) : DecimalDigits[d] = ch) - 1
    IN  IF Len(text) = 0 THEN 0
        ELSE 10 * IntValue(SubSeq(text, 1, Len(text) - 1)) + digit(text[Len(text)])

\* int(text): the number, or ValueError for a text that is not made of
\* decimal digits
ParseInt(text) ==
    IF Len(text) > 0 /\ \A i \in 1..Len(text) : IsDecimal(text[i])
    THEN [raised |-> "none", value |-> IntValue(text)]
    ELSE [raised |-> "ValueError", value |-> NaN]

\* line 206, astype(str) of a card number; the missing cell is <<>>
CardText(cell) == IF cell = <<>> THEN <<"n", "a", "n">> ELSE cell

\* the rows of the BIN list file
BinList ==
    << [bin |-> 427600, brand |-> 21],
       [bin |-> 220220, brand |-> 22] >>

\* line 216, set_index('bin')['brand'].to_dict()
BinToBrand(binlist) ==
    LET rowsOf(b) == {k \in 1..Len(binlist) : binlist[k].bin = b}
        last(b)   == CHOOSE k \in rowsOf(b) : \A j \in rowsOf(b) : j <= k
    IN  [b \in {binlist[k].bin : k \in 1..Len(binlist)} |-> binlist[last(b)].brand]

\* the length of the prefix of lines 220 and 222
BinLength == 6

\* get_payment_system, lines 219-224
get_payment_system(card_number, bin_to_brand) ==
    IF ~isdigit(card_number) \/ Len(card_number) < BinLength
    THEN [raised |-> "none", value |-> Unknown]
    ELSE LET bin_code == ParseInt(SubSeq(card_number, 1, BinLength))
         IN  IF bin_code.raised # "none" THEN bin_code
             ELSE IF bin_code.value \in DOMAIN bin_to_brand
                  THEN [raised |-> "none", value |-> bin_to_brand[bin_code.value]]
                  ELSE [raised |-> "none", value |-> Unknown]

\* anonymize_card_number, lines 202-228, on the cells of 'Номер карты';
\* binlist_file is how pd.read_csv ends
AnonymizeCardNumber(cells, binlist_file) ==
    LET texts == [i \in 1..Len(cells) |-> CardText(cells[i])]
    IN  IF binlist_file = "missing"
        THEN [raised |-> "none", column |-> [i \in 1..Len(cells) |-> Unknown]]
        ELSE IF binlist_file = "unreadable"
        THEN [raised |-> "OSError", column |-> texts]
        ELSE LET bin_to_brand == BinToBrand(BinList)
                 applied == [i \in 1..Len(cells) |-> get_payment_system(texts[i], bin_to_brand)]
             IN  IF \E i \in 1..Len(cells) : applied[i].raised # "none"
                 THEN [raised |-> "ValueError", column |-> texts]
                 ELSE [raised |-> "none", column |-> [i \in 1..Len(cells) |-> applied[i].value]]

(***************************************************************************)
(* SpecCol: one column transform called on one column.                     *)
(***************************************************************************)
SettingsFiles == {"ok", "missing", "unparsable", "unreadable"}

BinlistFiles == {"ok", "missing", "unreadable"}

ColumnsOver(cells) == UNION {[1..n -> cells] : n \in 1..MaxLen}

ColCall(transform, cells, longitudes, file) ==
    [pc |-> "called", transform |-> transform, cells |-> cells,
     longitudes |-> longitudes, file |-> file]

\* the calls on columns of integer cells: shop names listed and not listed in
\* the settings, the months of one year and the December of the next, the
\* coordinates calculate_distance is tabulated for, and the values mask is
\* called on, the mask token among them
ColCalls ==
    LET ShopNameCells  == {1, 2, 3, 4, NaN}
        DatetimeCells  == {202300 + m : m \in 1..12} \cup {202412, Text, NaN}
        LatitudeCells  == {CENTER_LAT, 59998784, 60138784, Text}
        LongitudeCells == {CENTER_LON, 30364997, NaN}
        MaskedCells    == {1, 2, NaN, MaskToken}
    IN  {ColCall("anonymize_shop_names", c, <<>>, f) :
            c \in ColumnsOver(ShopNameCells), f \in SettingsFiles}
        \cup {ColCall("anonymize_datetime", c, <<>>, "") : c \in ColumnsOver(DatetimeCells)}
        \cup {ColCall("anonymize_location", [i \in 1..Len(p) |-> p[i][1]],
                      [i \in 1..Len(p) |-> p[i][2]], "") :
                p \in ColumnsOver(LatitudeCells \X LongitudeCells)}
        \cup {ColCall("mask", c, <<>>, "") : c \in ColumnsOver(MaskedCells)}

\* the calls on columns of card numbers: listed and unlisted prefixes, a short
\* number, a letter and a superscript digit inside and after the prefix, and
\* the missing cell
CardCalls ==
    LET CardCells ==
            { <<"4", "2", "7", "6", "0", "0", "1", "2">>,
              <<"2", "2", "0", "2", "2", "0", "9">>,
              <<"9", "9", "9", "9", "9", "9", "1">>,
              <<"4", "2", "7", "6", "0">>,
              <<"4", "2", "7", "6", "x", "0", "1", "2">>,
              <<"4", "2", "7", "6", "0", "0", "1", "x">>,
              <<"4", "2", "7", "6", "sup2", "0", "1", "2">>,
              <<"4", "2", "7", "6", "0", "0", "1", "sup2">>,
              <<>> }
    IN  {ColCall("anonymize_card_number", c, <<>>, f) :
            c \in ColumnsOver(CardCells), f \in BinlistFiles}

ColReturn(exception, column, unmatched) ==
    [pc |-> "returned", transform |-> col.transform, cells |-> col.cells,
     longitudes |-> col.longitudes, file |-> col.file,
     raised |-> exception, column |-> column, unmatched |-> unmatched]

ColCalled(transform) == col.pc = "called" /\ col.transform = transform

AnonymizeShopNamesReturns ==
    /\ ColCalled("anonymize_shop_names")
    /\ LET out == AnonymizeShopNames(col.cells, col.file)
       IN  col' = ColReturn(out.raised, out.column, out.unmatched)
    /\ UNCHANGED <<frameVars, gen, run>>

AnonymizeDatetimeReturns ==
    /\ ColCalled("anonymize_datetime")
    /\ col' = ColReturn("none", AnonymizeDatetime(col.cells), NaN)
    /\ UNCHANGED <<frameVars, gen, run>>

AnonymizeLocationReturns ==
    /\ ColCalled("anonymize_location")
    /\ col' = ColReturn("none", AnonymizeLocation(col.cells, col.longitudes), NaN)
    /\ UNCHANGED <<frameVars, gen, run>>

MaskReturns ==
    /\ ColCalled("mask")
    /\ col' = ColReturn("none", Mask(col.cells), NaN)
    /\ UNCHANGED <<frameVars, gen, run>>

AnonymizeCardNumberReturns ==
    /\ ColCalled("anonymize_card_number")
    /\ LET out == AnonymizeCardNumber(col.cells, col.file)
       IN  col' = ColReturn(out.raised, out.column, NaN)
    /\ UNCHANGED <<frameVars, gen, run>>

InitCol ==
    /\ (col \in ColCalls \/ col \in CardCalls)
    /\ df = Frame(<<>>)
    /\ raised = "none"
    /\ metrics = NoMetrics
    /\ grouped = {}
    /\ removed = NaN
    /\ before = <<>>
    /\ report = NoReport
    /\ lastOp = "read_dataset"
    /\ gen = GenIdle
    /\ run = RunIdle

NextCol ==
    \/ AnonymizeShopNamesReturns
    \/ AnonymizeDatetimeReturns
    \/ AnonymizeLocationReturns
    \/ MaskReturns
    \/ AnonymizeCardNumberReturns

SpecCol == InitCol /\ [][NextCol]_vars

(***************************************************************************)
(* SpecMain: main (lines 418-461) with perform_anonymization (386-408),    *)
(* one action per call.  df is the frame the calls work on: the copy       *)
(* inside perform_anonymization, then anonymized_df.  Nothing catches an   *)
(* exception or sys.exit: either ends the run.  The labels pd.cut writes   *)
(* are held as their positions among the labels, and the groups of no row  *)
(* that observed=False adds, which line 369 drops again, are left to Spec. *)
(***************************************************************************)
MainColumns ==
    <<"shop_name", "datetime", "latitude", "longitude", "category", "brand",
      "card_number", "goods_count", "cost">>

MainFrame(rows) ==
    [columns |-> MainColumns, index |-> [i \in 1..Len(rows) |-> i - 1], data |-> rows]

\* what read_excel finds at the path: a dataset, an empty sheet, no file
Datasets ==
    LET MainRows ==
        { [shop_name |-> 1, datetime |-> 202301, latitude |-> CENTER_LAT,
           longitude |-> CENTER_LON, category |-> 1, brand |-> 1,
           card_number |-> <<"4", "2", "7", "6", "0", "0", "1", "2">>,
           goods_count |-> 1, cost |-> 100],
          [shop_name |-> 4, datetime |-> Text, latitude |-> 59998784,
           longitude |-> 30364997, category |-> 2, brand |-> 1,
           card_number |-> <<"4", "2", "7", "6", "0">>,
           goods_count |-> 12, cost |-> 1240],
          [shop_name |-> 1, datetime |-> 202301, latitude |-> CENTER_LAT,
           longitude |-> CENTER_LON, category |-> 1, brand |-> 1,
           card_number |-> <<"4", "2", "7", "6", "sup2", "0", "1", "2">>,
           goods_count |-> Text, cost |-> 100] }
    IN  {[file |-> "ok", frame |-> MainFrame(rows)] :
            rows \in UNION {[1..n -> MainRows] : n \in 1..MaxRows}}
        \cup {[file |-> "empty", frame |-> MainFrame(<<>>)],
              [file |-> "missing", frame |-> MainFrame(<<>>)]}

\* what get_quasi_identifiers returns for the columns the user picks
QuasiIdentifierChoices ==
    {<<>>, <<"latitude", "longitude">>, <<"shop_name">>, <<"longitude", "goods_count", "cost">>}

\* lines 128-165 on the frame
LocationFrame(frame) ==
    LET latitudes  == [i \in 1..NumRows(frame) |-> CoerceNumeric(frame.data[i]["latitude"])]
        longitudes == [i \in 1..NumRows(frame) |-> CoerceNumeric(frame.data[i]["longitude"])]
        distances  == [i \in 1..NumRows(frame) |-> calculate_distance(latitudes[i], longitudes[i])]
        located    == SetColumn(SetColumn(frame, "distance", distances), "location",
                                AnonymizeLocation(Column(frame, "latitude"),
                                                  Column(frame, "longitude")))
        \* line 165, df.drop(columns=...)
        dropped    == {"longitude", "latitude", "distance"}
        keep       == [j \in 1..Len(located.columns) |-> located.columns[j] \notin dropped]
        pos        == SelectPositions(keep, 1, Len(located.columns))
    IN  [columns |-> [j \in 1..Len(pos) |-> located.columns[pos[j]]],
         index   |-> located.index,
         data    |-> [i \in 1..NumRows(located) |->
                        [d \in (DOMAIN located.data[i]) \ dropped |-> located.data[i][d]]]]

\* generalize_column(df, column_name, num_categories) on the frame
GeneralizeFrame(frame, column_name, num_categories) ==
    LET \* a cell of the frame as generalize_column reads it
        CellOf(v) ==
            IF v = Text THEN [kind |-> "text"]
            ELSE IF IsNull(v) THEN NaNCell
            ELSE [kind |-> "number", value |-> v]
        \* a cell generalize_column returns, as the frame holds it: a number,
        \* NaN, or the position of the label among the labels
        CellCode(cell, labels) ==
            IF cell = NaNCell THEN NaN
            ELSE IF cell.kind = "number" THEN cell.value
            ELSE CHOOSE k \in 1..Len(labels) : labels[k] = cell
        g == GeneralizeColumn([i \in 1..NumRows(frame) |-> CellOf(frame.data[i][column_name])],
                              num_categories)
    IN  SetColumn(frame, column_name,
                  [i \in 1..NumRows(frame) |-> CellCode(g.column[i], g.labels)])

\* line 399
SurvivingQuasiIdentifiers(quasi_identifiers, frame) ==
    LET keep == [j \in 1..Len(quasi_identifiers) |-> HasColumn(frame, quasi_identifiers[j])]
        pos  == SelectPositions(keep, 1, Len(quasi_identifiers))
    IN  [j \in 1..Len(pos) |-> quasi_identifiers[pos[j]]]

\* lines 400-402 without the sys.exit
NeverExit(quasi_identifiers) == "none"

\* lines 400-402
ExitIfNoneLeft(quasi_identifiers) ==
    IF quasi_identifiers = <<>> THEN "SystemExit" ELSE "none"

\* the calls of main with identify_bad_k_values moved before the removal
MainStepsReportFirst ==
    <<"read_dataset", "get_quasi_identifiers",
      "anonymize_shop_names", "anonymize_datetime", "anonymize_location",
      "mask_category", "mask_brand", "anonymize_card_number",
      "generalize_goods_count", "generalize_cost", "return_quasi_identifiers",
      "calculate_row_uniqueness", "identify_bad_k_values",
      "remove_rows_by_uniqueness", "calculate_row_uniqueness_again", "save">>

\* the calls of main with the two generalize_column calls moved before the
\* other transforms
MainStepsGeneralizeFirst ==
    <<"read_dataset", "get_quasi_identifiers",
      "generalize_goods_count", "generalize_cost",
      "anonymize_shop_names", "anonymize_datetime", "anonymize_location",
      "mask_category", "mask_brand", "anonymize_card_number",
      "return_quasi_identifiers",
      "calculate_row_uniqueness", "remove_rows_by_uniqueness",
      "calculate_row_uniqueness_again", "identify_bad_k_values", "save">>

\* the calls of main (lines 424-461), those of perform_anonymization
\* (lines 389-402) in the place of its call, in the order of the code
MainSteps ==
    <<"read_dataset", "get_quasi_identifiers",
      "anonymize_shop_names", "anonymize_datetime", "anonymize_location",
      "mask_category", "mask_brand", "anonymize_card_number",
      "generalize_goods_count", "generalize_cost", "return_quasi_identifiers",
      "calculate_row_uniqueness", "remove_rows_by_uniqueness",
      "calculate_row_uniqueness_again", "identify_bad_k_values", "save">>

\* the run is at the call `step`
At(step) ==
    /\ raised = "none"
    /\ run.step <= Len(MainSteps)
    /\ MainSteps[run.step] = step

\* the call returned, or ended the run with `exception`
Advance(exception) == IF exception = "none" THEN run.step + 1 ELSE run.step

RunStart(dataset, settings_file, binlist_file) ==
    [pc |-> "running", step |-> 1, dataset |-> dataset,
     settings_file |-> settings_file, binlist_file |-> binlist_file,
     original |-> MainFrame(<<>>), selected |-> <<>>, quasi_identifiers |-> <<>>,
     remove_rows |-> FALSE, returned |-> FALSE, unmatched |-> NaN, saved |-> FALSE]

\* a transform of perform_anonymization returned `frame`, or raised
TransformStep(step, frame, exception) ==
    /\ raised' = exception
    /\ df' = IF exception = "none" THEN frame ELSE df
    /\ run' = [run EXCEPT !.step = Advance(exception)]
    /\ lastOp' = step
    /\ UNCHANGED <<metrics, grouped, removed, before, report, gen, col>>

\* line 424, read_dataset (lines 8-25)
ReadDataset ==
    /\ At("read_dataset")
    /\ LET exception == IF run.dataset.file = "ok" THEN "none" ELSE "SystemExit"
       IN  /\ raised' = exception
           /\ df' = IF exception = "none" THEN run.dataset.frame ELSE df
           /\ run' = [run EXCEPT !.step = Advance(exception),
                                 !.original = IF exception = "none"
                                              THEN run.dataset.frame ELSE @]
    /\ lastOp' = "read_dataset"
    /\ UNCHANGED <<metrics, grouped, removed, before, report, gen, col>>

\* line 427, get_quasi_identifiers (lines 28-54)
GetQuasiIdentifiers ==
    /\ At("get_quasi_identifiers")
    /\ \E selected \in QuasiIdentifierChoices :
         run' = [run EXCEPT !.step = @ + 1, !.selected = selected]
    /\ lastOp' = "get_quasi_identifiers"
    /\ UNCHANGED <<df, raised, metrics, grouped, removed, before, report, gen, col>>

\* line 389
MainAnonymizeShopNames ==
    /\ At("anonymize_shop_names")
    /\ LET out == AnonymizeShopNames(Column(df, "shop_name"), run.settings_file)
       IN  /\ raised' = out.raised
           /\ df' = IF out.raised = "none" THEN SetColumn(df, "shop_name", out.column) ELSE df
           /\ run' = [run EXCEPT !.step = Advance(out.raised), !.unmatched = out.unmatched]
    /\ lastOp' = "anonymize_shop_names"
    /\ UNCHANGED <<metrics, grouped, removed, before, report, gen, col>>

\* line 390
MainAnonymizeDatetime ==
    /\ At("anonymize_datetime")
    /\ TransformStep("anonymize_datetime",
                     SetColumn(df, "datetime", AnonymizeDatetime(Column(df, "datetime"))),
                     "none")

\* line 391
MainAnonymizeLocation ==
    /\ At("anonymize_location")
    /\ TransformStep("anonymize_location", LocationFrame(df), "none")

\* lines 392-393
MainMask ==
    \E column_name \in {"category", "brand"} :
        /\ At("mask_" \o column_name)
        /\ TransformStep("mask", SetColumn(df, column_name, Mask(Column(df, column_name))),
                         "none")

\* line 394
MainAnonymizeCardNumber ==
    /\ At("anonymize_card_number")
    /\ LET out == AnonymizeCardNumber(Column(df, "card_number"), run.binlist_file)
       IN  TransformStep("anonymize_card_number",
                         SetColumn(df, "card_number", out.column), out.raised)

\* lines 395-396
MainGeneralizeColumn ==
    \E call \in {[column_name |-> "goods_count", num_categories |-> 5],
                 [column_name |-> "cost", num_categories |-> 15]} :
        /\ At("generalize_" \o call.column_name)
        /\ TransformStep("generalize_column",
                         GeneralizeFrame(df, call.column_name, call.num_categories), "none")

\* lines 398-408, and the assignment of line 430 (main passes
\* remove_rows=False).  Lines 405-406 call remove_rows_by_uniqueness(df,
\* percentage=10) as remove_rows_by_uniqueness(df, quasi_identifiers,
\* percentage=5), which gives its parameter percentage two values.
ReturnQuasiIdentifiers ==
    /\ At("return_quasi_identifiers")
    /\ LET quasi_identifiers == SurvivingQuasiIdentifiers(run.selected, df)
           exit              == ExitIfNoneLeft(quasi_identifiers)
           exception         == IF exit # "none" THEN exit
                                ELSE IF run.remove_rows THEN "TypeError" ELSE "none"
       IN  /\ raised' = exception
           /\ run' = [run EXCEPT !.step = Advance(exception),
                                 !.quasi_identifiers = quasi_identifiers,
                                 !.returned = (exception = "none")]
    /\ lastOp' = "perform_anonymization"
    /\ UNCHANGED <<df, metrics, grouped, removed, before, report, gen, col>>

\* lines 434 and 442
MainCalculateRowUniqueness ==
    /\ At("calculate_row_uniqueness") \/ At("calculate_row_uniqueness_again")
    /\ df' = AnnotateFrame(df)
    /\ metrics' = UniquenessMetrics(df')
    /\ grouped' = GroupSizes(df, UniquenessGrouping(df), TRUE)
    /\ run' = [run EXCEPT !.step = @ + 1]
    /\ lastOp' = "calculate_row_uniqueness"
    /\ UNCHANGED <<raised, removed, before, report, gen, col>>

\* line 438
MainRemoveRows ==
    /\ At("remove_rows_by_uniqueness")
    /\ \E out \in RemoveRowsOutcomes(df, 5) :
         /\ raised' = out.raised
         /\ df' = IF out.raised = "none" THEN out.frame ELSE df
         /\ removed' = out.printed
         /\ before' = <<[frame |-> df, metrics |-> metrics, percentage |-> 5,
                         head |-> out.head]>>
         /\ run' = [run EXCEPT !.step = Advance(out.raised)]
    /\ lastOp' = "remove_rows_by_uniqueness"
    /\ UNCHANGED <<metrics, grouped, report, gen, col>>

\* line 446
MainIdentifyBadKValues ==
    /\ At("identify_bad_k_values")
    /\ LET total_rows == NumRows(df)
           sizes      == GroupSizes(df, run.quasi_identifiers, FALSE)
       IN  /\ grouped' = sizes
           /\ \E bad_groups \in SortedPrefixes(NonEmptyGroups(sizes), 5) :
                report' = [quasi_identifiers |-> run.quasi_identifiers,
                           max_rows |-> 5,
                           total_rows |-> total_rows,
                           printed |-> [i \in 1..Len(bad_groups) |->
                                          PrintedGroup(bad_groups[i], total_rows)]]
    /\ run' = [run EXCEPT !.step = @ + 1]
    /\ lastOp' = "identify_bad_k_values"
    /\ UNCHANGED <<df, raised, metrics, removed, before, gen, col>>

\* lines 449-461: the answer to the question, and to_excel
Save ==
    /\ At("save")
    /\ \E answer \in BOOLEAN : run' = [run EXCEPT !.step = @ + 1, !.saved = answer]
    /\ lastOp' = "save"
    /\ UNCHANGED <<df, raised, metrics, grouped, removed, before, report, gen, col>>

InitMain ==
    /\ run \in {RunStart(d, s, b) : d \in Datasets, s \in SettingsFiles, b \in BinlistFiles}
    /\ df = MainFrame(<<>>)
    /\ raised = "none"
    /\ metrics = NoMetrics
    /\ grouped = {}
    /\ removed = NaN
    /\ before = <<>>
    /\ report = NoReport
    /\ lastOp = "main"
    /\ gen = GenIdle
    /\ col = ColIdle

NextMain ==
    \/ ReadDataset
    \/ GetQuasiIdentifiers
    \/ MainAnonymizeShopNames
    \/ MainAnonymizeDatetime
    \/ MainAnonymizeLocation
    \/ MainMask
    \/ MainAnonymizeCardNumber
    \/ MainGeneralizeColumn
    \/ ReturnQuasiIdentifiers
    \/ MainCalculateRowUniqueness
    \/ MainRemoveRows
    \/ MainIdentifyBadKValues
    \/ Save

SpecMain == InitMain /\ [][NextMain]_vars

(***************************************************************************)
(* SpecPerform: perform_anonymization (lines 386-408) called on a dataset  *)
(* with a list of quasi-identifiers, remove_rows given or left to its      *)
(* default.                                                                *)
(***************************************************************************)
InitPerform ==
    /\ \E d \in {x \in Datasets : x.file = "ok"}, s \in SettingsFiles, b \in BinlistFiles,
          q \in QuasiIdentifierChoices, r \in BOOLEAN :
         /\ run = [RunStart(d, s, b) EXCEPT
                      !.step = CHOOSE k \in 1..Len(MainSteps) :
                                    MainSteps[k] = "anonymize_shop_names",
                      !.original = d.frame, !.selected = q, !.remove_rows = r]
         /\ df = d.frame
    /\ raised = "none"
    /\ metrics = NoMetrics
    /\ grouped = {}
    /\ removed = NaN
    /\ before = <<>>
    /\ report = NoReport
    /\ lastOp = "copy"
    /\ gen = GenIdle
    /\ col = ColIdle

NextPerform ==
    \/ MainAnonymizeShopNames
    \/ MainAnonymizeDatetime
    \/ MainAnonymizeLocation
    \/ MainMask
    \/ MainAnonymizeCardNumber
    \/ MainGeneralizeColumn
    \/ ReturnQuasiIdentifiers

SpecPerform == InitPerform /\ [][NextPerform]_vars

(***************************************************************************)
(* SpecInput: get_quasi_identifiers (lines 28-54), one action per line the *)
(* user enters.  A line other than 'q' is the sequence of the texts        *)
(* between its commas, each the sequence of its characters.                *)
(***************************************************************************)
\* lines 45-52 on one line: int() of every text first (line 45), then the
\* loop of lines 46-49, which appends the columns up to the first number out
\* of range
ReadLine(selected_columns, line, columns) ==
    LET parsed == [k \in 1..Len(line) |-> ParseInt(line[k])]
    IN  IF \E k \in 1..Len(line) : parsed[k].raised # "none"
        THEN [accepted |-> FALSE, selected_columns |-> selected_columns]
        ELSE LET idx(k)  == parsed[k].value - 1
                 bad     == {k \in 1..Len(line) : idx(k) < 0 \/ idx(k) >= Len(columns)}
                 stop    == IF bad = {} THEN Len(line) + 1
                            ELSE CHOOSE k \in bad : \A j \in bad : k <= j
             IN  [accepted |-> bad = {},
                  selected_columns |->
                      selected_columns \o [k \in 1..(stop - 1) |-> columns[idx(k) + 1]]]

\* line 54, list(set(selected_columns)): the distinct columns, in the order
\* the set happens to give
ListOfSet(selected_columns) ==
    LET S == Range(selected_columns)
    IN  {order \in [1..Cardinality(S) -> S] :
            \A i, j \in 1..Cardinality(S) : order[i] = order[j] => i = j}

\* the user enters a line other than 'q'
EnterLine ==
    /\ run.pc = "input"
    /\ \E line \in UNION {[1..n -> {<<"0">>, <<"1">>, <<"2">>, <<"1", "0">>, <<"x">>}] :
                            n \in 1..MaxTokens} :
         LET read == ReadLine(run.selected_columns, line, df.columns)
         IN  IF read.accepted
             THEN \E result \in ListOfSet(read.selected_columns) :
                    run' = [run EXCEPT !.pc = "returned",
                                       !.selected_columns = read.selected_columns,
                                       !.accepted = line, !.returned = result]
             ELSE /\ run.rejected < MaxRejected
                  /\ run' = [run EXCEPT !.selected_columns = read.selected_columns,
                                        !.rejected = @ + 1]
    /\ lastOp' = "get_quasi_identifiers"
    /\ UNCHANGED <<df, raised, metrics, grouped, removed, before, report, gen, col>>

\* the user enters 'q', lines 43-44
EnterQuit ==
    /\ run.pc = "input"
    /\ \E result \in ListOfSet(run.selected_columns) :
         run' = [run EXCEPT !.pc = "returned", !.quit = TRUE, !.returned = result]
    /\ lastOp' = "get_quasi_identifiers"
    /\ UNCHANGED <<df, raised, metrics, grouped, removed, before, report, gen, col>>

InitInput ==
    /\ df \in {d.frame : d \in {x \in Datasets : x.file = "ok" /\ NumRows(x.frame) = 1}}
    /\ run = [pc |-> "input", selected_columns |-> <<>>, rejected |-> 0,
              quit |-> FALSE, accepted |-> <<>>, returned |-> <<>>]
    /\ raised = "none"
    /\ metrics = NoMetrics
    /\ grouped = {}
    /\ removed = NaN
    /\ before = <<>>
    /\ report = NoReport
    /\ lastOp = "read_dataset"
    /\ gen = GenIdle
    /\ col = ColIdle

NextInput ==
    \/ EnterLine
    \/ EnterQuit

SpecInput == InitInput /\ [][NextInput]_vars

(***************************************************************************)
(* The claims.                                                             *)
(***************************************************************************)
Removal == before[1]

RemovedRows == lastOp = "remove_rows_by_uniqueness" /\ raised = "none"

Annotated == lastOp = "calculate_row_uniqueness"

FloorPercent(n, p) == (n * p) \div 100

\* C1: after the removal of the lowest-uniqueness p% of an annotated frame,
\* the minimum group size that calculate_row_uniqueness recomputes on the
\* remaining rows is at least the minimum group size before the removal
\* (stated where both minima exist).
C1_MinimumNeverDrops ==
    (Annotated /\ before # <<>>
        /\ ~IsNull(metrics.k_anonymity) /\ ~IsNull(Removal.metrics.k_anonymity))
    => metrics.k_anonymity >= Removal.metrics.k_anonymity

\* C2: the group counts of the groupby of calculate_row_uniqueness and of
\* identify_bad_k_values sum to the number of rows of the frame, missing
\* values in the grouping columns or not.
C2_CountsSumToRows ==
    lastOp \in {"calculate_row_uniqueness", "identify_bad_k_values"}
    => SumCounts(grouped) = NumRows(df)

\* C3: on an annotated frame of n rows remove_rows_by_uniqueness(p) returns
\* exactly n - floor(n*p/100) rows and prints floor(n*p/100).
C3_RemovesFloorOfPercentage ==
    RemovedRows =>
        LET n == NumRows(Removal.frame)
            k == FloorPercent(n, Removal.percentage)
        IN  NumRows(df) = n - k /\ removed = k

\* the first k positions of the frame sorted by uniqueness with a stable
\* sort, missing values last
StableHead(frame, k) ==
    LET u == Column(frame, "uniqueness")
        first(j, i) ==
            \/ ~IsNull(u[j]) /\ IsNull(u[i])
            \/ IsNull(u[j]) = IsNull(u[i]) /\ u[j] < u[i]
            \/ u[j] = u[i] /\ j < i
    IN  {i \in 1..NumRows(frame) :
            Cardinality({j \in 1..NumRows(frame) : first(j, i)}) < k}

\* C4: the rows removed are the first floor(n*p/100) rows of the frame sorted
\* ascending by uniqueness, rows of equal uniqueness in their original order.
C4_RemovesStableHead ==
    RemovedRows =>
        Removal.head = StableHead(Removal.frame,
                                  FloorPercent(NumRows(Removal.frame), Removal.percentage))

\* C5: remove_rows_by_uniqueness on a frame with no 'uniqueness' column ends
\* in ValueError for every percentage: it returns nothing, prints nothing,
\* and the caller's frame is the one it had.
C5_MissingUniquenessIsFatal ==
    (lastOp = "remove_rows_by_uniqueness" /\ ~HasColumn(Removal.frame, "uniqueness"))
    => raised = "ValueError" /\ df = Removal.frame /\ IsNull(removed)

C5_Witness ==
    /\ lastOp = "remove_rows_by_uniqueness"
    /\ ~HasColumn(Removal.frame, "uniqueness")
    /\ Removal.percentage = 50
    /\ NumRows(df) = 2

\* the frame of the scenario: 10 records, 6 of one category and 4 of another
IsScenario(frame) ==
    /\ NumRows(frame) = 10
    /\ Cardinality({i \in 1..10 : frame.data[i].shop_name = 1}) = 6
    /\ Cardinality({i \in 1..10 : frame.data[i].shop_name = 2}) = 4
    /\ \A i \in 1..10 : frame.data[i].quantity = 1

\* the rows that lie in groups of size below v, and of size at most v
RowsBelow(G, v) == SumCounts({g \in G : g.counts < v})
RowsUpTo(G, v) == SumCounts({g \in G : g.counts <= v})

\* the r-th smallest uniqueness, every group of size c standing for c rows
RankedSize(G, r) ==
    (CHOOSE g \in G : RowsBelow(G, g.counts) < r /\ r <= RowsUpTo(G, g.counts)).counts

\* C6, as the code has it: the metrics are the minimum, mean and median of
\* the uniqueness of the records, a group of size c counting c times:
\* k-anonymity is the smallest group size, the mean is the sum of the squared
\* group sizes over the number of grouped records, the median is the middle
\* of the records' values.  6 records 'A' and 4 'B' give 4, 5.2 and 6.
C6_MetricsOverRecords ==
    Annotated =>
        LET G == grouped
            n == SumCounts(G)
            m == metrics
        IN  /\ G = {} => m = NoMetrics
            /\ G # {} =>
                /\ \E g \in G : g.counts = m.k_anonymity
                /\ \A g \in G : g.counts >= m.k_anonymity
                /\ m.avg_uniqueness.den # 0 /\ m.median_uniqueness.den # 0
                /\ m.avg_uniqueness.num * n
                     = SumCounts({[key |-> g.key, counts |-> g.counts * g.counts] : g \in G})
                       * m.avg_uniqueness.den
                /\ m.median_uniqueness.num * 2
                     = (RankedSize(G, (n + 1) \div 2) + RankedSize(G, n \div 2 + 1))
                       * m.median_uniqueness.den
            /\ IsScenario(df) =>
                /\ m.k_anonymity = 4
                /\ m.avg_uniqueness.num * 10 = 52 * m.avg_uniqueness.den
                /\ m.median_uniqueness.num = 6 * m.median_uniqueness.den

C6_Witness == Annotated /\ IsScenario(df) /\ before = <<>>

\* C6: the metrics are the minimum, mean and median of the group sizes, one
\* value per group: 6 records 'A' and 4 'B' give 4, 5.0 and 5.0.
C6_MetricsOverClasses ==
    (Annotated /\ IsScenario(df)) =>
        /\ metrics.k_anonymity = 4
        /\ metrics.avg_uniqueness.num = 5 * metrics.avg_uniqueness.den
        /\ metrics.median_uniqueness.num = 5 * metrics.median_uniqueness.den

\* C7: after every calculate_row_uniqueness each record's uniqueness is the
\* number of records of the frame that agree with it on every column other
\* than 'uniqueness'.
C7_UniquenessCountsAgreeingRecords ==
    Annotated =>
        \A i \in 1..NumRows(df) :
            df.data[i].uniqueness =
                Cardinality({j \in 1..NumRows(df) :
                    \A c \in Range(df.columns) \ {"uniqueness"} :
                        df.data[j][c] = df.data[i][c]})

\* generalize_column returned after binning the column
Binned == gen.pc = "returned" /\ gen.binned

AtLeastTwoValid == Len(gen.valid_values) >= 2

StrictlyIncreasing(boundaries) ==
    \A i \in 2..Len(boundaries) : Precedes(boundaries[i - 1], boundaries[i])

\* C8: a run of generalize_column on a column with at least 2 valid numeric
\* values ends with exactly num_categories + 1 boundaries and exactly
\* num_categories labelled buckets.
C8_ExactlyNPlusOneBoundaries ==
    (Binned /\ AtLeastTwoValid) =>
        /\ Len(gen.boundaries) = gen.num_categories + 1
        /\ Len(gen.labels) = gen.num_categories

InBucket(x, k, boundaries) ==
    \/ Precedes(boundaries[k], Plain(x)) /\ PrecedesOrEquals(Plain(x), boundaries[k + 1])
    \/ k = 1 /\ Plain(x) = boundaries[1]

\* C10: on a column with at least 2 valid numeric values the final boundaries
\* reach from the minimum to the maximum of the valid values or beyond, and
\* every valid value gets the label of the one bucket that contains it; no
\* valid value is left without a label.
C10_EveryValidValueLabelled ==
    (Binned /\ AtLeastTwoValid) =>
        LET boundaries == gen.boundaries
            buckets    == 1..(Len(boundaries) - 1)
        IN  /\ PrecedesOrEquals(boundaries[1], Plain(SeriesMin(gen.valid_values)))
            /\ PrecedesOrEquals(Plain(SeriesMax(gen.valid_values)), boundaries[Len(boundaries)])
            /\ \A i \in 1..Len(gen.cells) :
                 LET x == ToNumeric(gen.cells[i])
                 IN  ~IsNull(x) =>
                       /\ gen.column[i] # NaNCell
                       /\ Cardinality({k \in buckets : InBucket(x, k, boundaries)}) = 1
                       /\ \E k \in buckets :
                            InBucket(x, k, boundaries) /\ gen.column[i] = gen.labels[k]

\* generalize_column returned, with or without binning
Returned == gen.pc = "returned"

\* C11: when fewer than 2 values of the column coerce to a number,
\* generalize_column returns the column with exactly the cells it had.
C11_FewValidValuesIsNoOp ==
    (Returned /\ Len(gen.valid_values) < 2) => gen.column = gen.cells

\* the sentinel the transforms write for a value they cannot use (lines 154,
\* 190, 213, 221)
UnknownCell == [kind |-> "unknown"]

\* C12: a cell that is null or does not coerce to a number takes no part in
\* the boundaries and comes out of generalize_column as the "unknown"
\* sentinel, not as a missing value.
C12_InvalidCellsAreUnknown ==
    Returned =>
        /\ \A k \in 1..Len(gen.valid_values) : ~IsNull(gen.valid_values[k])
        /\ Len(gen.valid_values) =
             Cardinality({i \in 1..Len(gen.cells) : gen.cells[i].kind = "number"})
        /\ \A i \in 1..Len(gen.cells) :
             gen.cells[i].kind # "number" => gen.column[i] = UnknownCell

\* a column transform returned (an exception included)
ColReturned(transform) == col.pc = "returned" /\ col.transform = transform

\* distances from 0 to 25 km, in metres
Distances == {250 * k : k \in 0..100}

\* C13: the distance bands are cut by strictly ordered thresholds: every
\* non-null distance gets exactly one of the three bands, and each of the
\* three bands is the band of some distance.
C13_ThreeBandsAllAssigned ==
    ColReturned("anonymize_location") =>
        /\ FirstThreshold < SecondThreshold
        /\ \A i \in 1..Len(col.cells) :
             ~IsNull(calculate_distance(CoerceNumeric(col.cells[i]),
                                        CoerceNumeric(col.longitudes[i])))
                => col.column[i] \in {DistanceBands[b] : b \in DOMAIN DistanceBands}
        /\ \A band \in {DistanceBands[b] : b \in DOMAIN DistanceBands} :
             \E distance \in Distances : categorize_distance(distance) = band

\* a card number of decimal digits only, 6 of them or more
WellFormedCard(cell) ==
    Len(cell) >= BinLength /\ \A k \in 1..Len(cell) : IsDecimal(cell[k])

\* C17: a value a transform cannot use never ends the transform and turns
\* into the unknown sentinel for its own record only: a date that does not
\* parse, a latitude or longitude that is no number, a card number that is
\* not all digits or is shorter than 6 characters.
C17_BadValuesBecomeUnknown ==
    /\ ColReturned("anonymize_datetime") =>
         /\ col.raised = "none"
         /\ \A i \in 1..Len(col.cells) :
              col.column[i] = Unknown <=> col.cells[i] \in {Text, NaN}
    /\ ColReturned("anonymize_location") =>
         /\ col.raised = "none"
         /\ \A i \in 1..Len(col.cells) :
              col.column[i] = Unknown <=>
                 (col.cells[i] \in {Text, NaN} \/ col.longitudes[i] \in {Text, NaN})
    /\ (ColReturned("anonymize_card_number") /\ col.file = "ok") =>
         /\ col.raised = "none"
         /\ \A i \in 1..Len(col.cells) :
              ~WellFormedCard(col.cells[i]) => col.column[i] = Unknown

\* the brand the BIN list gives for the first 6 digits, or the sentinel
BrandOfPrefix(cell) ==
    LET prefix == IntValue(SubSeq(cell, 1, BinLength))
    IN  IF \E k \in 1..Len(BinList) : BinList[k].bin = prefix
        THEN BinList[CHOOSE k \in 1..Len(BinList) : BinList[k].bin = prefix].brand
        ELSE Unknown

\* C18: a card number that is all digits and at least 6 characters long is
\* replaced by the brand the BIN list gives for its first 6 digits, by the
\* unknown sentinel when the list does not have them; no record raises an
\* error.
C18_CardBecomesBrandOfPrefix ==
    (ColReturned("anonymize_card_number") /\ col.file = "ok") =>
        \A i \in 1..Len(col.cells) :
            WellFormedCard(col.cells[i]) =>
                /\ col.raised = "none"
                /\ col.column[i] = BrandOfPrefix(col.cells[i])

\* anonymize_shop_names returned after loading the settings
ShopNamesMapped == ColReturned("anonymize_shop_names") /\ col.file = "ok"

Sentinels == {i \in 1..Len(col.cells) : col.column[i] = UnknownCategory}

\* C19: with the settings loaded, every shop name listed under a category is
\* replaced by that category, every other name by 'Unknown Category', and
\* the number of unmatched names printed is the number of records that got
\* the sentinel.
C19_ShopNamesBecomeCategories ==
    ShopNamesMapped =>
        /\ \A i \in 1..Len(col.cells) :
             LET listing == {k \in 1..Len(ShopCategories) :
                               col.cells[i] \in ShopCategories[k].chains_of_stores}
             IN  IF listing # {}
                 THEN \E k \in listing : col.column[i] = ShopCategories[k].category_name
                 ELSE col.column[i] = UnknownCategory
        /\ (Sentinels # {} \/ ~IsNull(col.unmatched)) => col.unmatched = Cardinality(Sentinels)

\* names of both kinds went through: one listed, one not
C19_Witness ==
    /\ ShopNamesMapped
    /\ Sentinels # {}
    /\ Cardinality(Sentinels) < Len(col.cells)
    /\ col.unmatched = Cardinality(Sentinels)

\* C20: a date that parses is replaced by its year with the season of its
\* month: 12, 1, 2 winter; 3, 4, 5 spring; 6, 7, 8 summer; 9, 10, 11 autumn.
\* Every month 1..12 has exactly one season and never the unknown sentinel.
C20_DateBecomesYearAndSeason ==
    ColReturned("anonymize_datetime") =>
        /\ \A i \in 1..Len(col.cells) :
             col.cells[i] \notin {Text, NaN} =>
                LET month == col.cells[i] % 100
                    season == CASE month \in {12, 1, 2}   -> Seasons.winter
                                [] month \in {3, 4, 5}    -> Seasons.spring
                                [] month \in {6, 7, 8}    -> Seasons.summer
                                [] month \in {9, 10, 11}  -> Seasons.autumn
                IN  col.column[i] = SeasonLabel(col.cells[i] \div 100, season)
        /\ \A month \in 1..12 : get_season(month) \in {Seasons.winter, Seasons.spring, Seasons.summer, Seasons.autumn}

\* a December, a June and a text went through
C20_Witness ==
    /\ ColReturned("anonymize_datetime")
    /\ \E i, j, k \in 1..Len(col.cells) :
         /\ col.cells[i] = 202312 /\ col.column[i] = SeasonLabel(2023, Seasons.winter)
         /\ col.cells[j] = 202306 /\ col.column[j] = SeasonLabel(2023, Seasons.summer)
         /\ col.cells[k] = Text /\ col.column[k] = Unknown

\* a lookup table of the run is absent or unreadable
LookupMissing == run.settings_file # "ok" \/ run.binlist_file # "ok"

\* the frame of the run is the dataset as it was read
DatasetUntouched ==
    /\ df.columns = run.original.columns
    /\ NumRows(df) = NumRows(run.original)
    /\ \A i \in 1..NumRows(df) :
         \A c \in Range(MainColumns) \ {"card_number"} : df.data[i][c] = run.original.data[i][c]
    /\ df = run.original

\* C14: when settings.json or the BIN list file is absent or unreadable the
\* run ends before any column transform changes the dataset, and nothing is
\* annotated, suppressed, reported or saved.
C14_MissingLookupAbortsFirst ==
    LookupMissing =>
        /\ DatasetUntouched
        /\ metrics = NoMetrics
        /\ IsNull(removed)
        /\ report = NoReport
        /\ ~run.saved

\* none of the columns the user selected is a column of the frame
NoneSurvives == \A k \in 1..Len(run.selected) : ~HasColumn(df, run.selected[k])

\* C15: when none of the selected quasi-identifier columns exists after the
\* column transforms, the run ends at the check of perform_anonymization:
\* nothing is annotated, suppressed or reported.
C15_NoQuasiIdentifierIsFatal ==
    /\ (lastOp = "perform_anonymization" /\ NoneSurvives) => raised = "SystemExit"
    /\ NoneSurvives =>
         /\ ~HasColumn(df, "uniqueness")
         /\ metrics = NoMetrics
         /\ IsNull(removed)
         /\ report = NoReport

\* the selection of the two dropped coordinate columns ended the run
C15_Witness ==
    /\ lastOp = "perform_anonymization"
    /\ run.selected = <<"latitude", "longitude">>
    /\ ~HasColumn(df, "latitude") /\ ~HasColumn(df, "longitude")
    /\ HasColumn(df, "location")
    /\ raised = "SystemExit"

\* the stages of the run, by what the state holds: the dataset read, the
\* transformed dataset returned, the uniqueness column, the number of rows
\* removed, the report
StageHolds ==
    << NumRows(run.original) > 0,
       run.returned,
       HasColumn(df, "uniqueness"),
       ~IsNull(removed),
       report # NoReport >>

StagesReached == {k \in 1..Len(StageHolds) : StageHolds[k]}

ReportKeys ==
    {KeyOf(df, report.quasi_identifiers, i) :
        i \in {r \in 1..NumRows(df) :
                 \A j \in 1..Len(report.quasi_identifiers) :
                    ~IsNull(df.data[r][report.quasi_identifiers[j]])}}

ReportKeySize(key) ==
    Cardinality({i \in 1..NumRows(df) : KeyOf(df, report.quasi_identifiers, i) = key})

EmittedKeys == {report.printed[i].key : i \in 1..Len(report.printed)}

\* C21: identify_bad_k_values emits min(max_rows, number of non-empty
\* groups) groups, each once and with its size, in ascending order of size,
\* none of size zero and none larger than a group it does not emit, each
\* with the share size / total_rows * 100, and leaves the dataset as it was.
C21_WorstGroupsReported ==
    /\ [](lastOp = "identify_bad_k_values" =>
            LET printed == report.printed
                fewest  == IF report.max_rows < Cardinality(ReportKeys)
                           THEN report.max_rows ELSE Cardinality(ReportKeys)
            IN  /\ Len(printed) = fewest
                /\ Cardinality(EmittedKeys) = Len(printed)
                /\ EmittedKeys \subseteq ReportKeys
                /\ \A i \in 1..Len(printed) :
                     /\ printed[i].k_value = ReportKeySize(printed[i].key)
                     /\ printed[i].k_value > 0
                     /\ printed[i].percentage =
                            [num |-> printed[i].k_value * 100, den |-> NumRows(df)]
                     /\ \A j \in i..Len(printed) : printed[i].k_value <= printed[j].k_value
                     /\ \A key \in ReportKeys \ EmittedKeys :
                            printed[i].k_value <= ReportKeySize(key))
    /\ [][lastOp' = "identify_bad_k_values" => df' = df]_vars

\* the smaller of two groups of different sizes was the one group asked for,
\* and the grouping held combinations of categories that no row has
C21_Witness ==
    /\ lastOp = "identify_bad_k_values"
    /\ report.max_rows = 1 /\ Len(report.printed) = 1
    /\ \E key \in ReportKeys \ EmittedKeys : ReportKeySize(key) > report.printed[1].k_value
    /\ \E g \in grouped : g.counts = 0

AlreadyMasked(cells) == \A i \in 1..Len(cells) : cells[i] = MaskToken

\* C22: mask makes every value of the column the mask token, and a column
\* that is already masked comes back as it was.
C22_MaskIsIdempotent ==
    ColReturned("mask") =>
        /\ Len(col.column) = Len(col.cells)
        /\ AlreadyMasked(col.column)
        /\ AlreadyMasked(col.cells) => col.column = col.cells

\* mask returned from a column of several values that mask had returned
C22_Witness ==
    /\ ColReturned("mask")
    /\ Len(col.cells) >= 2
    /\ AlreadyMasked(col.cells)
    /\ col.column = col.cells

AtCentre(i) == col.cells[i] = CENTER_LAT /\ col.longitudes[i] = CENTER_LON

\* C23: a record at the reference coordinate gets the innermost band.
C23_CentreIsInnermost ==
    ColReturned("anonymize_location") =>
        \A i \in 1..Len(col.cells) : AtCentre(i) => col.column[i] = DistanceBands.innermost

\* a record at the centre in the innermost band beside one in the outermost
C23_Witness ==
    /\ ColReturned("anonymize_location")
    /\ \E i, j \in 1..Len(col.cells) :
         /\ AtCentre(i) /\ col.column[i] = DistanceBands.innermost
         /\ ~AtCentre(j) /\ col.column[j] = DistanceBands.outermost

\* the frame holds the location column and none of the raw coordinate columns
LocationGeneralized ==
    /\ HasColumn(df, "location")
    /\ \A c \in {"longitude", "latitude", "distance"} : ~HasColumn(df, c)

BothMasked == \A c \in {"category", "brand"} : AlreadyMasked(Column(df, c))

GroupingCalls ==
    {"calculate_row_uniqueness", "remove_rows_by_uniqueness", "identify_bad_k_values"}

\* C24: the transforms run in one order: shop names, datetime, location,
\* the two masks, card number, then the two generalize_column calls; a
\* grouping or uniqueness computation runs only on a frame whose raw
\* coordinate columns location generalization has dropped.
C24_TransformsInFixedOrder ==
    [][/\ lastOp' = "anonymize_shop_names" => lastOp = "get_quasi_identifiers"
       /\ lastOp' = "anonymize_datetime" => lastOp = "anonymize_shop_names"
       /\ lastOp' = "anonymize_location" => lastOp = "anonymize_datetime"
       /\ lastOp' = "mask" =>
            /\ LocationGeneralized
            /\ \/ lastOp = "anonymize_location"
               \/ lastOp = "mask" /\ AlreadyMasked(Column(df, "category"))
       /\ lastOp' = "anonymize_card_number" => lastOp = "mask" /\ BothMasked
       /\ lastOp' = "generalize_column" =>
            /\ LocationGeneralized /\ BothMasked
            /\ lastOp \in {"anonymize_card_number", "generalize_column"}
       /\ lastOp' = "perform_anonymization" => lastOp = "generalize_column"
       /\ lastOp' \in GroupingCalls =>
            /\ LocationGeneralized
            /\ lastOp \in GroupingCalls \cup {"perform_anonymization"}
       /\ (lastOp' # lastOp \/ run'.step # run.step) => raised = "none"]_vars

\* the uniqueness was computed on a frame with generalized quantities and
\* without the raw coordinates
C24_Witness ==
    /\ lastOp = "calculate_row_uniqueness"
    /\ LocationGeneralized /\ BothMasked
    /\ HasColumn(df, "uniqueness")
    /\ \E i \in 1..NumRows(df) : df.data[i]["goods_count"] # run.original.data[i]["goods_count"]

TransformCalls ==
    {"anonymize_shop_names", "anonymize_datetime", "anonymize_location", "mask",
     "anonymize_card_number", "generalize_column"}

\* the size of the smallest class of records that agree on every column
SmallestClass(frame) ==
    LET size(i) == Cardinality({j \in 1..NumRows(frame) : frame.data[j] = frame.data[i]})
    IN  CHOOSE s \in {size(i) : i \in 1..NumRows(frame)} :
            \A i \in 1..NumRows(frame) : s <= size(i)

\* C25: two records that agree on every column before a transform agree on
\* every column after it, and the smallest class of the frame that
\* perform_anonymization returns is no smaller than that of the dataset.
C25_TransformsNeverSplit ==
    /\ [][lastOp' \in TransformCalls =>
            /\ NumRows(df') = NumRows(df)
            /\ \A i, j \in 1..NumRows(df) :
                 df.data[i] = df.data[j] => df'.data[i] = df'.data[j]]_vars
    /\ [](lastOp = "perform_anonymization" =>
            SmallestClass(df) >= SmallestClass(run.original))

\* perform_anonymization returned a frame in which two records that were
\* the same and one that differed from them are still so
C25_Witness ==
    /\ lastOp = "perform_anonymization" /\ raised = "none"
    /\ \E i, j, k \in 1..NumRows(df) :
         /\ i # j
         /\ run.original.data[i] = run.original.data[j] /\ df.data[i] = df.data[j]
         /\ run.original.data[i] # run.original.data[k] /\ df.data[i] # run.original.data[i]

\* the step of the magnitude of the boundary b >= 1, in units of 1/Scale
MagnitudeStep(b) ==
    IF b < 10 * Scale THEN Scale
    ELSE IF b < 100 * Scale THEN 5 * Scale
    ELSE IF b < 1000 * Scale THEN 50 * Scale
    ELSE 500 * Scale

Distance(a, b) == IF a >= b THEN a - b ELSE b - a

\* C26: beautify_boundaries returns as many boundaries as it is given, in
\* their order: 0 for 0, and for a boundary b >= 1 a multiple of the step of
\* its magnitude that is at most half a step from b.
C26_BeautifiedIsNearestMultiple ==
    Binned =>
        /\ Len(gen.beautified) = Len(gen.quantiles)
        /\ \A i \in 1..Len(gen.quantiles) :
             LET b == gen.quantiles[i]
                 r == gen.beautified[i]
             IN  /\ b = 0 => r = 0
                 /\ b >= Scale =>
                      /\ r % MagnitudeStep(b) = 0
                      /\ 2 * Distance(r, b) <= MagnitudeStep(b)

\* a boundary half a step from two multiples, beside one rounded up and one
\* rounded down
C26_Witness ==
    /\ Binned
    /\ \E i, j, k \in 1..Len(gen.quantiles) :
         /\ gen.quantiles[i] >= Scale
         /\ 2 * Distance(gen.beautified[i], gen.quantiles[i]) = MagnitudeStep(gen.quantiles[i])
         /\ gen.quantiles[j] >= Scale /\ gen.beautified[j] > gen.quantiles[j]
         /\ gen.quantiles[k] >= Scale /\ gen.beautified[k] < gen.quantiles[k]

\* identify_bad_k_values reported on the frame calculate_row_uniqueness
\* annotated, no row removed since
ReportedOnAnnotated ==
    /\ lastOp = "identify_bad_k_values"
    /\ before = <<>>
    /\ HasColumn(df, "uniqueness")

\* C27: the uniqueness of a record, computed over all columns, is at most
\* the size of its group under the quasi-identifiers, and the k-anonymity
\* that calculate_row_uniqueness reports is at most the smallest group size
\* that identify_bad_k_values reports on the same dataset.
C27_UniquenessAtMostGroupSize ==
    ReportedOnAnnotated =>
        /\ \A i \in 1..NumRows(df) :
             ~IsNull(df.data[i]["uniqueness"]) =>
                df.data[i]["uniqueness"] <=
                    ReportKeySize(KeyOf(df, report.quasi_identifiers, i))
        /\ (~IsNull(metrics.k_anonymity) /\ report.printed # <<>>) =>
                metrics.k_anonymity <= report.printed[1].k_value

\* perform_anonymization got past the sys.exit of line 402 with
\* remove_rows=True
ReachedRemoval ==
    /\ lastOp = "perform_anonymization"
    /\ run.remove_rows
    /\ run.quasi_identifiers # <<>>

\* C28: perform_anonymization with remove_rows=True raises nothing and
\* returns the transformed dataset without the int(5% of the rows) rows it
\* removes, and the surviving quasi-identifiers.
C28_RemovalCompletes ==
    ReachedRemoval =>
        /\ raised = "none"
        /\ run.returned
        /\ NumRows(df) = NumRows(run.original) - RowsToRemove(NumRows(run.original), 5)

\* the columns the accepted line names
NamedColumns ==
    IF run.quit THEN {}
    ELSE {df.columns[IntValue(run.accepted[k])] : k \in 1..Len(run.accepted)}

\* C29: get_quasi_identifiers returns the distinct columns that the accepted
\* line names, each once, and no column after 'q', whatever rejected lines
\* came before.
C29_OnlyAcceptedLineCounts ==
    run.pc = "returned" =>
        /\ Range(run.returned) = NamedColumns
        /\ Len(run.returned) = Cardinality(NamedColumns)

====
